---------------------------- MODULE Spec2Model ----------------------------
(***************************************************************************)
(* A model of gphotos_uploader.py: the resumable synchronisation of a      *)
(* directory tree into remote albums, with its durable ledger              *)
(* (upload_state.json), its failure registry (failed_uploads.json), the    *)
(* tenacity-wrapped remote calls, the retry pass and the listener.         *)
(***************************************************************************)
EXTENDS Integers, Sequences, FiniteSets, TLC

(***************************************************************************)
(* Bounds of the model.                                                    *)
(***************************************************************************)
MaxRuns == 2          \* process launches explored
MaxAlbums == 3        \* album ids the remote hands out
MaxDeletes == 1       \* albums the user deletes in the remote library
MaxFaults == 1        \* calls (remote or exiftool) that start with a failure
MaxYears == 2         \* years, from 2020 on, of the timestamps handed to a function

(***************************************************************************)
(* Program constants.                                                      *)
(***************************************************************************)
MaxAttempts == 5      \* stop_after_attempt(5)

(***************************************************************************)
(* The file system the runs operate on.  A directory is named by a string; *)
(* the root holds the folders of RootFolders, and the process's working    *)
(* directory is CwdDir.                                                    *)
(***************************************************************************)
CwdDir == "cwd"
FolderNames == {"2021-07", "2021-02-30", "trip"}

\* The characters of a folder name, as re.search sees them.
Chars(name) ==
    CASE name = "2021-07" -> <<"2","0","2","1","-","0","7">>
      [] name = "2021-02-30" -> <<"2","0","2","1","-","0","2","-","3","0">>
      [] name = "trip" -> <<"t","r","i","p">>
      [] name = "2021" -> <<"2","0","2","1">>
      [] name = "2021-02" -> <<"2","0","2","1","-","0","2">>
      [] name = "2021_06" -> <<"2","0","2","1","_","0","6">>
      [] name = "2021-7" -> <<"2","0","2","1","-","7">>
      [] name = "2021-00" -> <<"2","0","2","1","-","0","0">>
      [] name = "2021-13" -> <<"2","0","2","1","-","1","3">>
      [] name = "20210715" -> <<"2","0","2","1","0","7","1","5">>
      [] name = "2021-04-31" -> <<"2","0","2","1","-","0","4","-","3","1">>
      [] name = "2021-07-00" -> <<"2","0","2","1","-","0","7","-","0","0">>
      [] name = "2020-02-29" -> <<"2","0","2","0","-","0","2","-","2","9">>
      [] name = "x2021-07" -> <<"x","2","0","2","1","-","0","7">>
      [] name = "2021-02-28" -> <<"2","0","2","1","-","0","2","-","2","8">>
      [] OTHER -> <<>>

\* The entries of a directory, in the order iterdir yields them (the order
\* of the file system: the code does not sort them).
DirFiles(dir) ==
    IF dir = CwdDir THEN <<".c.jpg">>
    ELSE IF dir \in FolderNames THEN <<"big.mov", "b.jpg", "a.jpg", "n.txt">>
    ELSE <<>>

\* Path(name).suffix.lower()
Suffix(name) ==
    CASE name \in {"a.jpg", "b.jpg", ".c.jpg"} -> ".jpg"
      [] name = "big.mov" -> ".mov"
      [] name = "p.png" -> ".png"
      [] name = "h.heic" -> ".heic"
      [] OTHER -> ".txt"

\* name.startswith(".")
Dotted(name) == name = ".c.jpg"

\* os.path.getsize(file_path) > max_size
Oversize(name) == name = "big.mov"

SUPPORTED_EXIF_EXT ==
    {".jpg", ".jpeg", ".heic", ".heif", ".cr2", ".tif", ".tiff", ".mov", ".mp4", ".nef"}

FileNames == {"a.jpg", "b.jpg", "big.mov", "n.txt", ".c.jpg"}

(***************************************************************************)
(* Paths.  A path is a record: rel says it is the relative path ".", dir   *)
(* the directory it names once resolved against the working directory.     *)
(***************************************************************************)
AbsPath(dir) == [rel |-> FALSE, dir |-> dir]
DotPath == [rel |-> TRUE, dir |-> CwdDir]

\* Path(p).resolve()
Resolve(p) == AbsPath(p.dir)

\* str(Path(description).parent), description being a bare file name
ParentOfName(name) == DotPath

\* str(f).startswith(str(folder_path)) for f = folder_path / name (or the
\* entry iterdir yields, which carries no "./" prefix under Path("."))
StartsWithFolder(name, folder_path) ==
    IF folder_path.rel THEN Dotted(name) ELSE TRUE

\* os.path.isdir(path) / folder_path.exists()
IsDir(p) == p.dir \in FolderNames \cup {CwdDir}

\* (folder_path / file_name).is_file()
IsFile(p, name) ==
    \E i \in 1..Len(DirFiles(p.dir)) : DirFiles(p.dir)[i] = name

(***************************************************************************)
(* Dates.  A datetime is [y, m, d, t] (t the time of day); NoDate stands   *)
(* for None and ValueError for the exception datetime.replace raises.      *)
(***************************************************************************)
NoDate == [y |-> 0, m |-> 0, d |-> 0, t |-> 0]
ValueError == [y |-> -1, m |-> -1, d |-> -1, t |-> -1]
None == -1

IsLeap(y) == (y % 4 = 0 /\ y % 100 # 0) \/ y % 400 = 0

DaysIn(y, m) ==
    IF m = 2 THEN (IF IsLeap(y) THEN 29 ELSE 28)
    ELSE IF m \in {4, 6, 9, 11} THEN 30 ELSE 31

ValidDate(y, m, d) ==
    /\ y >= 1 /\ y <= 9999
    /\ m >= 1 /\ m <= 12
    /\ d >= 1 /\ d <= DaysIn(y, m)

\* datetime.replace(year=y, month=m, day=d): the whole date is validated
Replace(dt, y, m, d) ==
    IF dt = ValueError THEN ValueError
    ELSE IF ValidDate(y, m, d) THEN [y |-> y, m |-> m, d |-> d, t |-> dt.t]
    ELSE ValueError

IsDigit(c) == c \in {"0","1","2","3","4","5","6","7","8","9"}
DigitVal(c) ==
    CASE c = "0" -> 0 [] c = "1" -> 1 [] c = "2" -> 2 [] c = "3" -> 3
      [] c = "4" -> 4 [] c = "5" -> 5 [] c = "6" -> 6 [] c = "7" -> 7
      [] c = "8" -> 8 [] OTHER -> 9

DigitsAt(s, i, n) == i + n - 1 <= Len(s) /\ \A k \in i..(i + n - 1) : IsDigit(s[k])

Int2(s, i) == 10 * DigitVal(s[i]) + DigitVal(s[i + 1])

\* (?:[-_]?(\d{2}))? tried at position p: the position of the two digits,
\* or 0 when the optional group matches nothing
GroupAt(s, p) ==
    IF p <= Len(s) /\ s[p] \in {"-", "_"}
    THEN (IF DigitsAt(s, p + 1, 2) THEN p + 1 ELSE 0)
    ELSE (IF DigitsAt(s, p, 2) THEN p ELSE 0)

NoInfo == [y |-> None, m |-> None, d |-> None]

\* re.search(r'(\d{4})(?:[-_]?(\d{2}))?(?:[-_]?(\d{2}))?', folder_name)
extract_date_from_folder(s) ==
    IF ~ \E i \in 1..Len(s) : DigitsAt(s, i, 4) THEN NoInfo
    ELSE LET i == CHOOSE j \in 1..Len(s) :
                    DigitsAt(s, j, 4) /\ \A k \in 1..(j - 1) : ~DigitsAt(s, k, 4)
             g2 == GroupAt(s, i + 4)
             p3 == IF g2 = 0 THEN i + 4 ELSE g2 + 2
             g3 == GroupAt(s, p3)
         IN  [y |-> 1000 * DigitVal(s[i]) + 100 * DigitVal(s[i + 1]) + Int2(s, i + 2),
              m |-> IF g2 = 0 THEN None ELSE Int2(s, g2),
              d |-> IF g3 = 0 THEN None ELSE Int2(s, g3)]

\* the chain of replace calls both reconcilers share
ReplaceChain(dt, info) ==
    LET d1 == IF info.y # None /\ info.y # dt.y
              THEN Replace(dt, info.y, dt.m, dt.d) ELSE dt
        d2 == IF d1 = ValueError THEN ValueError
              ELSE IF info.m # None /\ info.m # dt.m
              THEN Replace(d1, d1.y, info.m, d1.d) ELSE d1
        d3 == IF d2 = ValueError THEN ValueError
              ELSE IF info.d # None /\ info.d # dt.d
              THEN Replace(d2, d2.y, d2.m, info.d) ELSE d2
    IN  d3

build_datetime_from_folder_info(original_dt, folder_info) ==
    LET new_dt == ReplaceChain(original_dt, folder_info)
    IN  IF new_dt # ValueError THEN new_dt
        ELSE Replace(original_dt,
                     IF folder_info.y # None THEN folder_info.y ELSE original_dt.y,
                     IF folder_info.m # None THEN folder_info.m ELSE original_dt.m,
                     1)

\* the new_dt update_filesystem_date_if_mismatch computes (no try/except)
FilesystemNewDate(current_ts, folder_info) == ReplaceChain(current_ts, folder_info)


\* the modification time a rewritten file gets (exiftool -overwrite_original)
NowDate == [y |-> 2025, m |-> 3, d |-> 10, t |-> 12]

\* DateTimeOriginal as stored in the file before any run (NoDate: no tag)
InitialExif(name) ==
    CASE name = "a.jpg" -> [y |-> 2020, m |-> 1, d |-> 15, t |-> 10]
      [] name = ".c.jpg" -> [y |-> 2019, m |-> 12, d |-> 25, t |-> 9]
      [] OTHER -> NoDate

\* st_mtime before any run
InitialMtime(name) ==
    CASE name = "a.jpg" -> [y |-> 2020, m |-> 1, d |-> 15, t |-> 10]
      [] name = "b.jpg" -> [y |-> 2020, m |-> 1, d |-> 31, t |-> 8]
      [] name = "big.mov" -> [y |-> 2020, m |-> 7, d |-> 5, t |-> 7]
      [] OTHER -> [y |-> 2019, m |-> 12, d |-> 25, t |-> 9]

(***************************************************************************)
(* Helpers on lists and dictionaries.                                      *)
(***************************************************************************)
SeqToSet(s) == {s[i] : i \in 1..Len(s)}

\* list.remove(x): the first occurrence goes
RemoveElem(s, x) ==
    IF x \notin SeqToSet(s) THEN s
    ELSE LET i == CHOOSE j \in 1..Len(s) : s[j] = x /\ \A k \in 1..(j - 1) : s[k] # x
         IN  SubSeq(s, 1, i - 1) \o SubSeq(s, i + 1, Len(s))

\* del d[k]
DelKey(d, k) == [x \in DOMAIN d \ {k} |-> d[x]]

\* d[k] = v
SetKey(d, k, v) == [x \in DOMAIN d \cup {k} |-> IF x = k THEN v ELSE d[x]]

EmptyDict == [x \in {} |-> 0]

\* the keys of a dictionary of folder names, as a list
AllFolderKeys == <<"2021-02-30", "2021-07", "trip", "cwd", "">>
KeyList(d) == SelectSeq(AllFolderKeys, LAMBDA n : n \in DOMAIN d)

Kinds == {"UploadError", "AddToAlbumError", "TooLarge", "ExifErrors", "UnsupportedFormat"}

\* the default load_json(FAILED_FILE, ...) gets at start-up
DefaultFailures == [k \in Kinds |-> EmptyDict]

\* state.get(folder_name, {}).get('files', [])
FilesOf(st, fn) == IF fn \in DOMAIN st THEN st[fn].files ELSE <<>>

\* failures.get(kind, {}).get(folder, {}).get("files", [])
FailedFiles(fl, kind, fn) ==
    IF kind \in DOMAIN fl /\ fn \in DOMAIN fl[kind] THEN fl[kind][fn].files ELSE <<>>

\* Path(file_path).parent.name
ParentName(folder_path) == IF folder_path.rel THEN "" ELSE folder_path.dir

(***************************************************************************)
(* State.                                                                  *)
(***************************************************************************)
VARIABLES
    root_dirs,        \* the folders under PHOTO_ROOT_DIR
    call,             \* a function called on its own: its arguments and results
    exif, mtime,      \* per file: DateTimeOriginal and st_mtime
    albums, nextId,   \* remote library: title of each live album id, next id handed out
    deletes,          \* albums deleted by the user so far
    faults,           \* failing calls so far
    stateFile,        \* upload_state.json
    failedFile,       \* failed_uploads.json (EmptyDict: no such file)
    state,            \* the global state
    failures,         \* the global failures
    lfailures,        \* the failures local to process_exif_errors_loop
    already_uploaded, \* the listener's already_uploaded
    args,             \* the parsed command line
    pc, stack,        \* position of the process and its pending calls
    loc,              \* local variables of the running code
    runs,             \* launches so far
    transferred,      \* (folder, file) pairs with a successful transfer call
    retransferred,    \* pairs with two or more successful transfer calls
    committed,        \* pairs whose batchCreate call succeeded
    effects,          \* kinds of outside effect the current run has had
    created,          \* titles of the albums the current run created
    replaced,         \* album ids the current run replaced after a 404
    stale_used,       \* replaced ids a later batchCreate call was sent to
    call_failed,      \* an album-create or transfer call of the current run failed
    changed,          \* an album was deleted during the current run
    prev              \* the previous process was a normal pass, not a dry run, that
                      \* reached its report with no create or transfer call failing,
                      \* and nothing has touched the files since

fixedVars == <<root_dirs, call>>
fsVars == <<fixedVars, exif, mtime>>
remoteVars == <<albums, nextId, deletes, faults>>
diskVars == <<stateFile, failedFile>>
memVars == <<state, failures, lfailures, already_uploaded>>
ghostVars == <<transferred, retransferred, committed, effects, created, replaced,
               stale_used, call_failed, changed>>
vars == <<fsVars, remoteVars, diskVars, memVars, args, pc, stack, loc, runs,
          ghostVars, prev>>

NoArgs == [retry_failed |-> FALSE, listener |-> FALSE, update_exif |-> FALSE,
           dry_run |-> FALSE]
RETRY_FAILED == args.retry_failed
LISTENER_MODE == args.listener
UPDATE_FROM_FOLDER_DATE == args.update_exif
DRY_RUN == args.dry_run

NoPath == AbsPath("")
NoLoc == [type_queue |-> <<>>, error_type |-> "", folder_queue |-> <<>>,
          folder_name |-> "", folder_path |-> NoPath, album_id |-> 0,
          files |-> {}, file_queue |-> <<>>, file |-> "",
          uf_attempt |-> 0, ata_attempt |-> 0, ca_attempt |-> 0,
          retval |-> "", created_id |-> 0, response |-> 0, commits |-> 0,
          driven |-> {}]


\* no function is called on its own while the program runs
NoCall == [fn |-> "", original |-> NoDate, exif_new |-> NoDate, fs_new |-> NoDate,
           step |-> "none"]

\* no launch yet: an empty remote library, no state file, no failure file
Unstarted ==
    /\ albums = EmptyDict /\ nextId = 1 /\ deletes = 0 /\ faults = 0
    /\ stateFile = EmptyDict /\ failedFile = EmptyDict
    /\ state = EmptyDict /\ failures = EmptyDict /\ lfailures = EmptyDict
    /\ already_uploaded = {}
    /\ args = NoArgs
    /\ pc = "idle" /\ stack = <<>> /\ loc = NoLoc
    /\ runs = 0
    /\ transferred = {} /\ retransferred = {} /\ committed = {}
    /\ effects = {} /\ created = <<>> /\ replaced = {} /\ stale_used = {}
    /\ call_failed = FALSE /\ changed = FALSE
    /\ prev = FALSE

\* the state before the first launch, the folders of the root being given
Fresh ==
    /\ exif = [k \in {<<d, n>> : d \in root_dirs \cup {CwdDir}, n \in FileNames}
                 |-> InitialExif(k[2])]
    /\ mtime = [k \in {<<d, n>> : d \in root_dirs \cup {CwdDir}, n \in FileNames}
                 |-> InitialMtime(k[2])]
    /\ Unstarted

Init ==
    /\ root_dirs \in {{n} : n \in FolderNames}
    /\ call = NoCall
    /\ Fresh


(***************************************************************************)
(* Calls, returns and exceptions.  A frame names where the caller goes on  *)
(* when the callee returns (ret) and when it raises (exc).                 *)
(***************************************************************************)
Frame(ret, exc) == [ret |-> ret, exc |-> exc]

Call(label, ret, exc, l) ==
    /\ pc' = label
    /\ stack' = <<Frame(ret, exc)>> \o stack
    /\ loc' = l

Return(l) ==
    /\ pc' = Head(stack).ret
    /\ stack' = Tail(stack)
    /\ loc' = l

Raise(l) ==
    /\ pc' = Head(stack).exc
    /\ stack' = Tail(stack)
    /\ loc' = l

Goto(label, l) ==
    /\ pc' = label
    /\ stack' = stack
    /\ loc' = l

\* an exception nothing catches: the traceback follows
Uncaught == Goto("crashed", loc)

\* save_json(STATE_FILE, st)
SaveState(st) == state' = st /\ stateFile' = st

\* load_json(STATE_FILE, {}) followed by the pruning of lines 112-115
LoadState == [k \in {n \in DOMAIN stateFile : IsDir(stateFile[n].path)} |-> stateFile[k]]

\* load_json(FAILED_FILE, default)
LoadFailures(default) == IF failedFile = EmptyDict THEN default ELSE failedFile

\* the dictionary add_failure leaves in failures (error_type being a key)
AddedFailure(fl, error_type, fn, file_name, folder_path) ==
    LET entry == IF fn \in DOMAIN fl[error_type] THEN fl[error_type][fn]
                 ELSE [path |-> Resolve(folder_path), files |-> <<>>]
        files == IF file_name \in SeqToSet(entry.files) THEN entry.files
                 ELSE Append(entry.files, file_name)
    IN  [fl EXCEPT ![error_type] =
            SetKey(fl[error_type], fn, [entry EXCEPT !.files = files])]

\* add_failure: the global failures is changed and written out
add_failure(error_type, fn, file_name, folder_path) ==
    /\ failures' = AddedFailure(failures, error_type, fn, file_name, folder_path)
    /\ failedFile' = failures'

\* failures[kind][fn]["files"].remove(file_name), the entry going with its
\* last file
RemovedFailure(fl, kind, fn, file_name) ==
    LET files == RemoveElem(fl[kind][fn].files, file_name)
    IN  [fl EXCEPT ![kind] =
            IF files = <<>> THEN DelKey(fl[kind], fn)
            ELSE SetKey(fl[kind], fn, [fl[kind][fn] EXCEPT !.files = files])]

\* found_files of line 736
FoundFiles(folder_path) ==
    SelectSeq(DirFiles(folder_path.dir), LAMBDA n : StartsWithFolder(n, folder_path))

Key(l) == <<l.folder_name, l.file>>

(***************************************************************************)
(* Launch and end of a process.                                            *)
(***************************************************************************)
Modes == {[retry_failed |-> r, listener |-> l, update_exif |-> u, dry_run |-> d] :
            r \in BOOLEAN, l \in BOOLEAN, u \in BOOLEAN, d \in BOOLEAN}

StartRun(a) ==
    /\ pc = "idle"
    /\ runs < MaxRuns
    /\ a.listener => a.retry_failed   \* --listener is read only after the retry pass
    /\ runs' = runs + 1
    /\ args' = a
    /\ state' = LoadState
    /\ failures' = LoadFailures(DefaultFailures)
    /\ lfailures' = EmptyDict /\ already_uploaded' = {}
    /\ stack' = <<>>
    /\ IF a.retry_failed
       THEN /\ pc' = "retry_type"
            /\ loc' = [NoLoc EXCEPT !.type_queue = <<"UploadError", "AddToAlbumError">>]
       ELSE /\ pc' = "main_loop"
            /\ loc' = [NoLoc EXCEPT !.folder_queue =
                          SelectSeq(AllFolderKeys, LAMBDA n : n \in root_dirs)]
    /\ UNCHANGED <<fsVars, remoteVars, diskVars, ghostVars, prev>>

EndRun(how) ==
    /\ pc' = "idle" /\ stack' = <<>> /\ loc' = NoLoc
    /\ state' = EmptyDict /\ failures' = EmptyDict /\ lfailures' = EmptyDict
    /\ already_uploaded' = {}
    /\ prev' = (~RETRY_FAILED /\ ~DRY_RUN /\ how = "report" /\ ~call_failed)
    /\ args' = NoArgs
    /\ effects' = {} /\ created' = <<>> /\ replaced' = {} /\ stale_used' = {}
    /\ call_failed' = FALSE /\ changed' = FALSE
    /\ UNCHANGED <<fsVars, remoteVars, diskVars, runs, transferred, retransferred,
                   committed>>

\* the final report of lines 757-760
Report == pc = "report" /\ EndRun("report")

\* an uncaught exception ends the process
Traceback == pc = "crashed" /\ EndRun("exception")

\* the process is killed, at any point of its run (the listener never returns
\* and ends no other way)
Kill == pc \notin {"idle", "report", "crashed"} /\ EndRun("killed")

\* The user deletes an album in the remote library.  Only the next
\* batchCreate call sent to that album observes the deletion, so the step is
\* taken right before such a call.
DeleteAlbum(a) ==
    /\ a \in DOMAIN albums
    /\ pc = "add_to_album" /\ a = loc.album_id
    /\ deletes < MaxDeletes
    /\ albums' = DelKey(albums, a)
    /\ deletes' = deletes + 1
    /\ changed' = TRUE
    /\ UNCHANGED <<fsVars, nextId, faults, diskVars, memVars, args, pc, stack, loc,
                   runs, transferred, retransferred, committed, effects, created,
                   replaced, stale_used, call_failed, prev>>

(* Failures of the outside world.  A call that starts with a failure takes *)
(* one unit of the budget; the failures that follow it within the same     *)
(* retried call take none.                                                 *)
(***************************************************************************)
MayFail(first) == ~first \/ faults < MaxFaults
Fault(first) == faults' = IF first THEN faults + 1 ELSE faults

(***************************************************************************)
(* create_album, under @retry(wait_fixed(5), stop_after_attempt(5)).       *)
(***************************************************************************)
\* title[:100], every folder name of the model being shorter than that
AlbumTitle(title) == title

create_album ==
    /\ pc = "create_album"
    /\ effects' = effects \cup {"create"}
    /\ \/ /\ nextId <= MaxAlbums          \* 200: the album exists from now on
          /\ albums' = SetKey(albums, nextId, AlbumTitle(loc.folder_name))
          /\ nextId' = nextId + 1
          /\ created' = Append(created, loc.folder_name)
          /\ Return([loc EXCEPT !.created_id = nextId, !.ca_attempt = 0])
          /\ UNCHANGED <<faults, call_failed>>
       \/ \* any other answer raises; tenacity calls again or gives up
          /\ nextId > MaxAlbums \/ MayFail(loc.ca_attempt = 1)
          /\ Fault(loc.ca_attempt = 1 /\ nextId <= MaxAlbums)
          /\ call_failed' = TRUE
          /\ UNCHANGED <<albums, nextId, created>>
          /\ IF loc.ca_attempt < MaxAttempts
             THEN Goto("create_album", [loc EXCEPT !.ca_attempt = @ + 1])
             ELSE Raise([loc EXCEPT !.ca_attempt = 0])
    /\ UNCHANGED <<fsVars, deletes, diskVars, memVars, args, runs, transferred,
                   retransferred, committed, replaced, stale_used, changed, prev>>

CallCreateAlbum(ret, exc, l) ==
    Call("create_album", ret, exc, [l EXCEPT !.ca_attempt = 1])

(***************************************************************************)
(* upload_file, under the same retry policy.                               *)
(***************************************************************************)
upload_file ==
    /\ pc = "upload_file"
    /\ LET retry == IF loc.uf_attempt < MaxAttempts
                    THEN Goto("upload_file", [loc EXCEPT !.uf_attempt = @ + 1])
                    ELSE Raise([loc EXCEPT !.uf_attempt = 0])
       IN  IF ~IsFile(loc.folder_path, loc.file)
           THEN \* os.path.getsize raises
                /\ retry
                /\ UNCHANGED <<failures, failedFile, transferred, retransferred,
                               effects, call_failed, faults>>
           ELSE IF Oversize(loc.file)
           THEN /\ IF "TooLarge" \in DOMAIN failures
                   THEN add_failure("TooLarge", ParentName(loc.folder_path), loc.file,
                                    loc.folder_path)
                   ELSE UNCHANGED <<failures, failedFile>>
                /\ retry
                /\ UNCHANGED <<transferred, retransferred, effects, call_failed, faults>>
           ELSE /\ effects' = effects \cup {"upload"}
                /\ UNCHANGED <<failures, failedFile>>
                /\ \/ /\ transferred' = transferred \cup {Key(loc)}   \* 200
                      /\ retransferred' =
                            IF Key(loc) \in transferred
                            THEN retransferred \cup {Key(loc)} ELSE retransferred
                      /\ Return([loc EXCEPT !.uf_attempt = 0])
                      /\ UNCHANGED <<call_failed, faults>>
                   \/ \* another status, or no answer
                      /\ MayFail(loc.uf_attempt = 1)
                      /\ Fault(loc.uf_attempt = 1)
                      /\ call_failed' = TRUE
                      /\ UNCHANGED <<transferred, retransferred>>
                      /\ retry
    /\ UNCHANGED <<fsVars, albums, nextId, deletes, stateFile, state, lfailures,
                   already_uploaded, args, runs, committed, created, replaced,
                   stale_used, changed, prev>>

CallUploadFile(ret, exc, l) ==
    Call("upload_file", ret, exc, [l EXCEPT !.uf_attempt = 1])

(***************************************************************************)
(* add_to_album, under the same retry policy: every re-attempt is a call   *)
(* with the arguments of the first, album_id included.  loc.commits counts *)
(* the batchCreate calls sent since process_file or the listener called    *)
(* add_to_album.                                                           *)
(***************************************************************************)
Trouble == {429, 500}

\* the answers of mediaItems:batchCreate for an album id (500 stands for
\* every status other than 200, 429 and the 404 of a missing album, and for
\* an item status whose code is not 0)
CommitAnswers(album) ==
    (IF album \in DOMAIN albums THEN {200} ELSE {404})
    \cup (IF MayFail(loc.response \notin Trouble) THEN Trouble ELSE {})

CommitFault(response) ==
    Fault(response \in Trouble /\ loc.response \notin Trouble)

\* the first batchCreate call of an attempt (lines 284-299)
add_to_album ==
    /\ pc = "add_to_album"
    /\ effects' = effects \cup {"commit"}
    /\ stale_used' = IF loc.album_id \in replaced
                     THEN stale_used \cup {loc.album_id} ELSE stale_used
    /\ \E response \in CommitAnswers(loc.album_id) :
         LET l == [loc EXCEPT !.response = response, !.commits = @ + 1]
         IN  /\ CommitFault(response)
             /\ CASE response = 200 ->
                    /\ committed' = committed \cup {Key(loc)}
                    /\ Return([l EXCEPT !.ata_attempt = 0])
                    /\ UNCHANGED <<state, stateFile>>
               [] response = 404 ->
                    \* the album is gone: the record is dropped, a new album is asked for
                    /\ IF loc.folder_name \in DOMAIN state
                       THEN SaveState(DelKey(state, loc.folder_name))
                       ELSE UNCHANGED <<state, stateFile>>
                    /\ CallCreateAlbum("ata_created", "ata_raise", l)
                    /\ UNCHANGED committed
               [] OTHER ->
                    \* 429 sleeps 65 s and raises; any other status raises
                    /\ Goto("ata_raise", l)
                    /\ UNCHANGED <<state, stateFile, committed>>
    /\ UNCHANGED <<fsVars, albums, nextId, deletes, failedFile, failures, lfailures,
                   already_uploaded, args, runs, transferred, retransferred,
                   created, replaced, call_failed, changed, prev>>

\* lines 303-312: the new record, and batchCreate again with the new id
ata_created ==
    /\ pc = "ata_created"
    /\ SaveState(SetKey(state, loc.folder_name,
                        [album_id |-> loc.created_id, path |-> ParentOfName(loc.file),
                         files |-> <<>>]))
    /\ replaced' = replaced \cup {loc.album_id}
    /\ effects' = effects \cup {"commit"}
    /\ \E response \in CommitAnswers(loc.created_id) :
         LET l == [loc EXCEPT !.response = response, !.created_id = 0,
                              !.commits = @ + 1]
         IN  /\ CommitFault(response)
             /\ IF response = 200
                THEN /\ committed' = committed \cup {Key(loc)}
                     /\ Return([l EXCEPT !.ata_attempt = 0])
                ELSE /\ Goto("ata_raise", l)
                     /\ UNCHANGED committed
    /\ UNCHANGED <<fsVars, albums, nextId, deletes, failedFile, failures, lfailures,
                   already_uploaded, args, runs, transferred, retransferred,
                   created, stale_used, call_failed, changed, prev>>

\* the except clause re-raises; tenacity calls again or gives up
ata_raise ==
    /\ pc = "ata_raise"
    /\ IF loc.ata_attempt < MaxAttempts
       THEN Goto("add_to_album", [loc EXCEPT !.ata_attempt = @ + 1])
       ELSE Raise([loc EXCEPT !.ata_attempt = 0])
    /\ UNCHANGED <<fsVars, remoteVars, diskVars, memVars, args, runs,
                   ghostVars, prev>>

CallAddToAlbum(ret, exc, l) ==
    Call("add_to_album", ret, exc,
         [l EXCEPT !.ata_attempt = 1, !.response = 0, !.commits = 0])

(***************************************************************************)
(* process_file.                                                           *)
(***************************************************************************)
\* lines 505-519 and 541-548: the checks before any work
pf_entry ==
    /\ pc = "process_file"
    /\ IF ~StartsWithFolder(loc.file, loc.folder_path)
       THEN Return([loc EXCEPT !.retval = "None"])
       ELSE IF loc.file \in SeqToSet(FilesOf(state, loc.folder_name))
       THEN Return([loc EXCEPT !.retval = "None"])
       ELSE IF UPDATE_FROM_FOLDER_DATE
       THEN Goto("pf_exif", loc)
       ELSE IF DRY_RUN
       THEN Return([loc EXCEPT !.retval = "None"])
       ELSE CallUploadFile("pf_uploaded", "pf_upload_exc", loc)
    /\ UNCHANGED <<fsVars, remoteVars, diskVars, memVars, args, runs,
                   ghostVars, prev>>

FsKey(l) == <<l.folder_path.dir, l.file>>

\* what get_exif_datetimeoriginal_exiftool may return for a stored tag: the
\* tag, or None (no tag, a time-out, an unreadable value)
ExifReads(stored) ==
    {stored} \cup (IF stored # NoDate /\ faults < MaxFaults THEN {NoDate} ELSE {})

\* update_exif_date_if_mismatch without its DRY_RUN test (line 394)
WritesExif_NoDryRunTest(new_dt, exif_dt) == new_dt # exif_dt

\* lines 391-403: exiftool -overwrite_original runs when the dates differ and
\* the run is not a dry run
WritesExif(new_dt, exif_dt) == new_dt # exif_dt /\ ~DRY_RUN

\* lines 520-532: force_file_download and update_exif_date_if_mismatch
pf_exif ==
    /\ pc = "pf_exif"
    /\ LET folder_info == extract_date_from_folder(Chars(loc.folder_name))
           stored == exif[FsKey(loc)]
       IN  IF Suffix(loc.file) \notin SUPPORTED_EXIF_EXT \/ folder_info = NoInfo
           THEN /\ effects' = effects \cup {"exiftool_read"}   \* force_file_download
                /\ Goto("pf_fsdate", loc)
                /\ UNCHANGED <<exif, mtime, failures, failedFile, faults>>
           ELSE \E read \in ExifReads(stored) :
                  LET exif_dt == IF read = NoDate THEN mtime[FsKey(loc)] ELSE read
                      new_dt == build_datetime_from_folder_info(exif_dt, folder_info)
                      misread == IF read # stored THEN 1 ELSE 0
                  IN  IF new_dt = ValueError
                      THEN /\ effects' = effects \cup {"exiftool_read"}
                           /\ Uncaught
                           /\ faults' = faults + misread
                           /\ UNCHANGED <<exif, mtime, failures, failedFile>>
                      ELSE IF ~WritesExif(new_dt, exif_dt)
                      THEN /\ effects' = effects \cup {"exiftool_read"}
                           /\ Goto("pf_fsdate", loc)
                           /\ faults' = faults + misread
                           /\ UNCHANGED <<exif, mtime, failures, failedFile>>
                      ELSE /\ effects' = effects \cup {"exiftool_read", "exiftool_write"}
                           /\ \/ /\ exif' = [exif EXCEPT ![FsKey(loc)] = new_dt]
                                 /\ mtime' = [mtime EXCEPT ![FsKey(loc)] = NowDate]
                                 /\ Goto("pf_fsdate", loc)
                                 /\ faults' = faults + misread
                                 /\ UNCHANGED <<failures, failedFile>>
                              \/ \* CalledProcessError
                                 /\ faults + misread < MaxFaults
                                 /\ faults' = faults + misread + 1
                                 /\ UNCHANGED <<exif, mtime>>
                                 /\ IF "ExifErrors" \in DOMAIN failures
                                    THEN /\ add_failure("ExifErrors", loc.folder_name,
                                                        loc.file, loc.folder_path)
                                         /\ Goto("pf_fsdate", loc)
                                    ELSE /\ UNCHANGED <<failures, failedFile>>
                                         /\ Uncaught
    /\ UNCHANGED <<fixedVars, albums, nextId, deletes, stateFile, state, lfailures,
                   already_uploaded, args, runs, transferred, retransferred,
                   committed, created, replaced, stale_used, call_failed, changed,
                   prev>>

\* lines 534-548: update_filesystem_date_if_mismatch, then the upload or,
\* in a dry run, the return
pf_fsdate ==
    /\ pc = "pf_fsdate"
    /\ LET folder_info == extract_date_from_folder(Chars(loc.folder_name))
           current_ts == mtime[FsKey(loc)]
           new_dt == IF folder_info = NoInfo THEN current_ts
                     ELSE FilesystemNewDate(current_ts, folder_info)
           go == IF DRY_RUN THEN Return([loc EXCEPT !.retval = "None"])
                 ELSE CallUploadFile("pf_uploaded", "pf_upload_exc", loc)
       IN  IF new_dt = ValueError
           THEN Uncaught /\ UNCHANGED <<mtime, effects>>
           ELSE IF new_dt = current_ts \/ DRY_RUN
           THEN go /\ UNCHANGED <<mtime, effects>>
           ELSE /\ mtime' = [mtime EXCEPT ![FsKey(loc)] = new_dt]   \* os.utime
                /\ effects' = effects \cup {"utime"}
                /\ go
    /\ UNCHANGED <<fixedVars, exif, remoteVars, diskVars, memVars, args, runs,
                   transferred, retransferred, committed, created, replaced,
                   stale_used, call_failed, changed, prev>>

\* lines 549-551 and 559-561: the file is recorded, then committed
pf_uploaded ==
    /\ pc = "pf_uploaded"
    /\ IF loc.folder_name \in DOMAIN state
       THEN /\ SaveState([state EXCEPT ![loc.folder_name].files = Append(@, loc.file)])
            /\ CallAddToAlbum("pf_committed", "pf_commit_exc", loc)
       ELSE \* KeyError, caught by the except clause of line 553
            /\ Goto("pf_upload_exc", loc)
            /\ UNCHANGED <<state, stateFile>>
    /\ UNCHANGED <<fsVars, remoteVars, failedFile, failures, lfailures,
                   already_uploaded, args, runs, ghostVars, prev>>

\* the handler that follows a failure of process_file's steps
FailFile(error_type) ==
    /\ IF error_type \in DOMAIN failures
       THEN /\ add_failure(error_type, loc.folder_name, loc.file, loc.folder_path)
            /\ Return([loc EXCEPT !.retval = "False", !.response = 0, !.commits = 0])
       ELSE /\ UNCHANGED <<failures, failedFile>>
            /\ Uncaught
    /\ UNCHANGED <<fsVars, remoteVars, stateFile, state, lfailures, already_uploaded,
                   args, runs, ghostVars, prev>>

\* lines 553-557
pf_upload_exc == pc = "pf_upload_exc" /\ FailFile("UploadError")

\* lines 565-569
pf_commit_exc == pc = "pf_commit_exc" /\ FailFile("AddToAlbumError")

\* lines 562-564
pf_committed ==
    /\ pc = "pf_committed"
    /\ Return([loc EXCEPT !.retval = "True", !.response = 0, !.commits = 0])
    /\ UNCHANGED <<fsVars, remoteVars, diskVars, memVars, args, runs,
                   ghostVars, prev>>

(***************************************************************************)
(* The normal pass (lines 696-755).                                        *)
(***************************************************************************)
\* lines 734-736
ListFolder(l, st) ==
    [l EXCEPT !.files = SeqToSet(st[l.folder_name].files),
              !.file_queue = FoundFiles(l.folder_path)]

main_loop ==
    /\ pc = "main_loop"
    /\ IF loc.folder_queue = <<>>
       THEN Goto("report", loc)
       ELSE LET fn == Head(loc.folder_queue)
                l == [loc EXCEPT !.folder_queue = Tail(@), !.folder_name = fn,
                                 !.folder_path = AbsPath(fn)]
            IN  IF fn \notin DOMAIN state
                THEN CallCreateAlbum("main_created", "main_loop", l)
                ELSE Goto("main_file",
                          ListFolder([l EXCEPT !.album_id = state[fn].album_id,
                                               !.folder_path = state[fn].path], state))
    /\ UNCHANGED <<fsVars, remoteVars, diskVars, memVars, args, runs,
                   ghostVars, prev>>

\* lines 719-725
main_created ==
    /\ pc = "main_created"
    /\ SaveState(SetKey(state, loc.folder_name,
                        [album_id |-> loc.created_id, path |-> loc.folder_path,
                         files |-> <<>>]))
    /\ Goto("main_file",
            ListFolder([loc EXCEPT !.album_id = loc.created_id, !.created_id = 0],
                       state'))
    /\ UNCHANGED <<fsVars, remoteVars, failedFile, failures, lfailures,
                   already_uploaded, args, runs, ghostVars, prev>>

\* lines 739-755
main_file ==
    /\ pc = "main_file"
    /\ IF loc.file_queue = <<>>
       THEN Goto("main_loop", loc)
       ELSE LET f == Head(loc.file_queue)
                l == [loc EXCEPT !.file_queue = Tail(@), !.file = f, !.retval = ""]
            IN  IF Suffix(f) \in SUPPORTED_EXIF_EXT /\ f \notin loc.files
                THEN Call("process_file", "main_file", "crashed", l)
                ELSE Goto("main_file", [loc EXCEPT !.file_queue = Tail(@)])
    /\ UNCHANGED <<fsVars, remoteVars, diskVars, memVars, args, runs,
                   ghostVars, prev>>


(***************************************************************************)
(* The retry pass (lines 638-691).                                         *)
(***************************************************************************)
\* line 640, and line 642 for the next error type
retry_type ==
    /\ pc = "retry_type"
    /\ IF loc.type_queue = <<>>
       THEN Goto("retry_save", loc)
       ELSE LET error_type == Head(loc.type_queue)
            IN  Goto("retry_folder",
                     [loc EXCEPT !.type_queue = Tail(@), !.error_type = error_type,
                                 !.folder_queue =
                                    IF error_type \in DOMAIN failures
                                    THEN KeyList(failures[error_type]) ELSE <<>>])
    /\ UNCHANGED <<fsVars, remoteVars, diskVars, memVars, args, runs,
                   ghostVars, prev>>

\* the album of the first record of state whose path is the folder's
AlbumByPath(folder_path) ==
    LET names == SelectSeq(KeyList(state),
                           LAMBDA n : Resolve(state[n].path) = Resolve(folder_path))
    IN  IF names = <<>> THEN "" ELSE Head(names)

\* lines 642-668
retry_folder ==
    /\ pc = "retry_folder"
    /\ IF loc.folder_queue = <<>>
       THEN Goto("retry_type", loc)
       ELSE LET fn == Head(loc.folder_queue)
                rest == [loc EXCEPT !.folder_queue = Tail(@)]
            IN  IF fn \notin DOMAIN failures[loc.error_type]
                THEN Uncaught                       \* KeyError
                ELSE LET entry == failures[loc.error_type][fn]
                         album_name == AlbumByPath(entry.path)
                         l == [rest EXCEPT !.folder_name = fn,
                                           !.folder_path = entry.path,
                                           !.file_queue = entry.files]
                     IN  IF ~IsDir(entry.path)
                         THEN Goto("retry_folder", rest)
                         ELSE IF album_name # ""
                         THEN Goto("retry_file",
                                   [l EXCEPT !.album_id = state[album_name].album_id,
                                             !.folder_name = album_name])
                         ELSE CallCreateAlbum("retry_created", "retry_folder", l)
    /\ UNCHANGED <<fsVars, remoteVars, diskVars, memVars, args, runs,
                   ghostVars, prev>>

\* lines 660-665
retry_created ==
    /\ pc = "retry_created"
    /\ SaveState(SetKey(state, loc.folder_name,
                        [album_id |-> loc.created_id, path |-> Resolve(loc.folder_path),
                         files |-> <<>>]))
    /\ Goto("retry_file", [loc EXCEPT !.album_id = loc.created_id, !.created_id = 0])
    /\ UNCHANGED <<fsVars, remoteVars, failedFile, failures, lfailures,
                   already_uploaded, args, runs, ghostVars, prev>>

\* failures[error_type][folder_name]["files"].remove(file_name), in memory
\* only; a missing entry or file raises
RetryRemove(l) ==
    IF /\ l.folder_name \in DOMAIN failures[l.error_type]
       /\ l.file \in SeqToSet(failures[l.error_type][l.folder_name].files)
    THEN /\ failures' = RemovedFailure(failures, l.error_type, l.folder_name, l.file)
         /\ Goto("retry_file", l)
    ELSE /\ UNCHANGED failures
         /\ Uncaught

\* lines 670-683
retry_file ==
    /\ pc = "retry_file"
    /\ IF loc.file_queue = <<>>
       THEN Goto("retry_folder", loc) /\ UNCHANGED failures
       ELSE LET l == [loc EXCEPT !.file_queue = Tail(@), !.file = Head(loc.file_queue),
                                 !.retval = ""]
            IN  IF Suffix(l.file) \notin SUPPORTED_EXIF_EXT
                THEN RetryRemove(l)
                ELSE /\ Call("process_file", "retry_pf_ret", "crashed", l)
                     /\ UNCHANGED failures
    /\ UNCHANGED <<fsVars, remoteVars, diskVars, state, lfailures, already_uploaded,
                   args, runs, ghostVars, prev>>

\* lines 683-689
retry_pf_ret ==
    /\ pc = "retry_pf_ret"
    /\ IF loc.retval = "True"
       THEN RetryRemove(loc)
       ELSE Goto("retry_file", loc) /\ UNCHANGED failures
    /\ UNCHANGED <<fsVars, remoteVars, diskVars, state, lfailures, already_uploaded,
                   args, runs, ghostVars, prev>>

\* lines 691-694
retry_save ==
    /\ pc = "retry_save"
    /\ failedFile' = failures
    /\ Goto(IF LISTENER_MODE THEN "lis_load" ELSE "report", NoLoc)
    /\ UNCHANGED <<fsVars, remoteVars, stateFile, memVars, args, runs,
                   ghostVars, prev>>

(***************************************************************************)
(* The listener, process_exif_errors_loop (lines 440-499).                 *)
(***************************************************************************)
\* lines 445-448: the registry is read anew into a local variable
lis_load ==
    /\ pc = "lis_load"
    /\ lfailures' = LoadFailures(EmptyDict)
    /\ Goto("lis_folder",
            [NoLoc EXCEPT !.folder_queue =
                IF "ExifErrors" \in DOMAIN lfailures'
                THEN KeyList(lfailures'["ExifErrors"]) ELSE <<>>])
    /\ UNCHANGED <<fsVars, remoteVars, diskVars, state, failures, already_uploaded,
                   args, runs, ghostVars, prev>>

\* lines 448-474, and the sleep of line 499 after the last folder
lis_folder ==
    /\ pc = "lis_folder"
    /\ IF loc.folder_queue = <<>>
       THEN Goto("lis_load", NoLoc)
       ELSE LET fn == Head(loc.folder_queue)
                entry == lfailures["ExifErrors"][fn]
                rest == [loc EXCEPT !.folder_queue = Tail(@)]
                album_id == IF fn \in DOMAIN state THEN state[fn].album_id ELSE 0
                l == [rest EXCEPT !.folder_name = fn, !.folder_path = entry.path,
                                  !.file_queue = entry.files, !.album_id = album_id]
            IN  IF ~IsDir(entry.path) \/ DRY_RUN
                THEN Goto("lis_folder", rest)
                ELSE IF album_id = 0
                THEN CallCreateAlbum("lis_created", "lis_folder", l)
                ELSE Goto("lis_file", l)
    /\ UNCHANGED <<fsVars, remoteVars, diskVars, memVars, args, runs,
                   ghostVars, prev>>

\* lines 466-471
lis_created ==
    /\ pc = "lis_created"
    /\ SaveState(SetKey(state, loc.folder_name,
                        [album_id |-> loc.created_id, path |-> Resolve(loc.folder_path),
                         files |-> <<>>]))
    /\ Goto("lis_file", [loc EXCEPT !.album_id = loc.created_id, !.created_id = 0])
    /\ UNCHANGED <<fsVars, remoteVars, failedFile, failures, lfailures,
                   already_uploaded, args, runs, ghostVars, prev>>

\* lines 476-486; loc.driven holds the files the iteration has called
\* upload_file for
lis_file ==
    /\ pc = "lis_file"
    /\ IF loc.file_queue = <<>>
       THEN Goto("lis_folder", loc)
       ELSE LET l == [loc EXCEPT !.file_queue = Tail(@), !.file = Head(loc.file_queue)]
            IN  IF \/ <<l.folder_name, l.file>> \in already_uploaded
                   \/ ~IsFile(l.folder_path, l.file)
                THEN Goto("lis_file", l)
                ELSE CallUploadFile("lis_uploaded", "lis_file",
                                    [l EXCEPT !.driven = @ \cup {Key(l)}])
    /\ UNCHANGED <<fsVars, remoteVars, diskVars, memVars, args, runs,
                   ghostVars, prev>>

\* line 487
lis_uploaded ==
    /\ pc = "lis_uploaded"
    /\ CallAddToAlbum("lis_committed", "lis_file", loc)
    /\ UNCHANGED <<fsVars, remoteVars, diskVars, memVars, args, runs,
                   ghostVars, prev>>

\* lines 488-497
lis_committed ==
    /\ pc = "lis_committed"
    /\ IF loc.folder_name \in DOMAIN state
       THEN /\ SaveState([state EXCEPT ![loc.folder_name].files = Append(@, loc.file)])
            /\ already_uploaded' = already_uploaded \cup {Key(loc)}
            /\ lfailures' = RemovedFailure(lfailures, "ExifErrors", loc.folder_name,
                                           loc.file)
            /\ failedFile' = lfailures'
       ELSE \* KeyError, logged by the except clause
            UNCHANGED <<state, stateFile, already_uploaded, lfailures, failedFile>>
    /\ Goto("lis_file", [loc EXCEPT !.response = 0, !.commits = 0])
    /\ UNCHANGED <<fsVars, remoteVars, failures, args, runs, ghostVars, prev>>

(***************************************************************************)
(* exif-check.py --save, run by the user as another process: one file of   *)
(* process_directory's walk (lines 124-146).  It runs between two launches *)
(* of the uploader or at any point of the listener, whose purpose is to    *)
(* pick up what it appends.                                                *)
(***************************************************************************)
\* the process is in process_exif_errors_loop or in a call made from it
InListener ==
    \/ pc \in {"lis_load", "lis_folder", "lis_created", "lis_file", "lis_uploaded",
               "lis_committed"}
    \/ /\ stack # <<>>
       /\ stack[Len(stack)].ret \in {"lis_created", "lis_uploaded", "lis_committed"}

\* re.search(r'(\d{4})[-_]?(\d{2})', folder_name): the place of the year
FolderDateAt(s, i) ==
    /\ DigitsAt(s, i, 4)
    /\ \/ DigitsAt(s, i + 4, 2)
       \/ i + 4 <= Len(s) /\ s[i + 4] \in {"-", "_"} /\ DigitsAt(s, i + 5, 2)

extract_folder_date(s) ==
    IF ~ \E i \in 1..Len(s) : FolderDateAt(s, i) THEN NoInfo
    ELSE LET i == CHOOSE j \in 1..Len(s) :
                    FolderDateAt(s, j) /\ \A k \in 1..(j - 1) : ~FolderDateAt(s, k)
             p == IF DigitsAt(s, i + 4, 2) THEN i + 4 ELSE i + 5
         IN  [y |-> 1000 * DigitVal(s[i]) + 100 * DigitVal(s[i + 1]) + Int2(s, i + 2),
              m |-> Int2(s, p), d |-> None]

supported_read == {".jpg", ".jpeg", ".png", ".tif", ".tiff", ".heic", ".cr2", ".heif"}

\* lines 137-141: the corrected date of a mismatching file
CheckNewDate(exif_dt, year, month) ==
    LET new_dt == Replace(exif_dt, year, month, exif_dt.d)
    IN  IF new_dt # ValueError THEN new_dt ELSE Replace(exif_dt, year, month, 1)

\* append_to_failed_uploads: what it writes back
AppendedFailure(data, folder, folder_path, file_name) ==
    LET with == IF "ExifErrors" \in DOMAIN data THEN data
                ELSE SetKey(data, "ExifErrors", EmptyDict)
    IN  AddedFailure(with, "ExifErrors", folder, file_name, folder_path)

exif_check_save(dir, name) ==
    /\ pc = "idle" \/ InListener
    /\ dir \in root_dirs
    /\ name \in SeqToSet(DirFiles(dir))
    /\ Suffix(name) \in supported_read
    /\ LET info == extract_folder_date(Chars(dir))
           exif_dt == exif[<<dir, name>>]
           new_dt == CheckNewDate(exif_dt, info.y, info.m)
       IN  /\ info # NoInfo /\ info.y # 0
           /\ exif_dt # NoDate
           /\ exif_dt.y # info.y \/ exif_dt.m # info.m
           /\ new_dt # ValueError
           /\ \/ /\ exif' = [exif EXCEPT ![<<dir, name>>] = new_dt]   \* piexif.insert
                 /\ mtime' = [mtime EXCEPT ![<<dir, name>>] = NowDate]
                 /\ UNCHANGED faults
              \/ /\ faults < MaxFaults          \* the update fails and is only printed
                 /\ faults' = faults + 1
                 /\ UNCHANGED <<exif, mtime>>
           /\ failedFile' = AppendedFailure(failedFile, dir, AbsPath(dir), name)
    /\ prev' = FALSE
    /\ UNCHANGED <<fixedVars, albums, nextId, deletes, stateFile, memVars, args, pc,
                   stack, loc, runs, ghostVars>>

(***************************************************************************)
(* The specification.                                                      *)
(***************************************************************************)
Next ==
    \/ \E a \in Modes : StartRun(a)
    \/ Report
    \/ Traceback
    \/ Kill
    \/ \E a \in 1..MaxAlbums : DeleteAlbum(a)
    \/ create_album
    \/ upload_file
    \/ add_to_album
    \/ ata_created
    \/ ata_raise
    \/ pf_entry
    \/ pf_exif
    \/ pf_fsdate
    \/ pf_uploaded
    \/ pf_upload_exc
    \/ pf_commit_exc
    \/ pf_committed
    \/ main_loop
    \/ main_created
    \/ main_file
    \/ retry_type
    \/ retry_folder
    \/ retry_created
    \/ retry_file
    \/ retry_pf_ret
    \/ retry_save
    \/ lis_load
    \/ lis_folder
    \/ lis_created
    \/ lis_file
    \/ lis_uploaded
    \/ lis_committed
    \/ \E dir \in FolderNames, name \in FileNames : exif_check_save(dir, name)

Spec == Init /\ [][Next]_vars

(***************************************************************************)
(* Date reconciliation called on its own: a folder name and a timestamp    *)
(* (the DateTimeOriginal, or the st_mtime, of a file), and the corrected   *)
(* timestamp of each of the two reconcilers.  ValueError as a result says  *)
(* that the call raised.                                                   *)
(***************************************************************************)
progVars == <<root_dirs, exif, mtime, remoteVars, diskVars, memVars, args, pc,
              stack, loc, runs, ghostVars, prev>>

\* folder names the reconcilers are called on
DateFolders ==
    FolderNames \cup {"2021", "2021-02", "2021_06", "2021-7", "2021-00", "2021-13",
                      "20210715", "2021-04-31", "2021-07-00", "2020-02-29",
                      "x2021-07", "2021-02-28"}

\* every valid timestamp of the years considered, at two times of day
Originals ==
    {dt \in [y : 2020..(2019 + MaxYears), m : 1..12, d : 1..31, t : {0, 10}] :
        ValidDate(dt.y, dt.m, dt.d)}

DatesInit ==
    /\ root_dirs = {}
    /\ call \in [fn : DateFolders, original : Originals, exif_new : {NoDate},
                  fs_new : {NoDate}, step : {"start"}]
    /\ Fresh

\* lines 377-389: new_dt of update_exif_date_if_mismatch, exif_dt being given
reconcile_exif ==
    /\ call.step = "start"
    /\ LET folder_info == extract_date_from_folder(Chars(call.fn))
       IN  call' = [call EXCEPT
                      !.exif_new = IF folder_info = NoInfo THEN call.original
                                   ELSE build_datetime_from_folder_info(call.original,
                                                                        folder_info),
                      !.step = "exif"]
    /\ UNCHANGED progVars

\* lines 414-430: new_dt of update_filesystem_date_if_mismatch, current_ts
\* being given
reconcile_fs ==
    /\ call.step = "exif"
    /\ LET folder_info == extract_date_from_folder(Chars(call.fn))
       IN  call' = [call EXCEPT
                      !.fs_new = IF folder_info = NoInfo THEN call.original
                                 ELSE FilesystemNewDate(call.original, folder_info),
                      !.step = "done"]
    /\ UNCHANGED progVars

DatesNext == reconcile_exif \/ reconcile_fs

Dates == DatesInit /\ [][DatesNext]_vars

(***************************************************************************)
(* exif-check.py on its own: process_directory over one directory, with    *)
(* or without --save.  call holds the flag, the filenames the walk has not *)
(* reached yet, the anomalies found so far and the DateTimeOriginal every  *)
(* file had at the start.                                                  *)
(***************************************************************************)
\* the extensions update_exif_datetime has a writer for (lines 62 and 72)
exif_writable == {".jpg", ".jpeg", ".heic", ".heif", ".cr2", ".tif", ".tiff"}

CheckFolders == {"2021-07", "2021-02", "2021", "2021-00", "trip"}
CheckFiles == <<"a.jpg", "p.png", "h.heic", "n.txt">>
CheckDates ==
    {NoDate, [y |-> 2020, m |-> 1, d |-> 15, t |-> 10],
     [y |-> 2020, m |-> 1, d |-> 31, t |-> 8], [y |-> 2021, m |-> 7, d |-> 5, t |-> 7]}

ExifCheckInit ==
    /\ root_dirs \in {{n} : n \in CheckFolders}
    /\ exif \in [{<<d, n>> : d \in root_dirs, n \in SeqToSet(CheckFiles)} -> CheckDates]
    /\ mtime = [k \in DOMAIN exif |-> InitialMtime(k[2])]
    /\ call \in [save : BOOLEAN, queue : {CheckFiles}, anomalies : {<<>>},
                  exif0 : {exif}, step : {"walk"}]
    /\ Unstarted

\* the directory process_directory walks
CheckDir == CHOOSE d \in root_dirs : TRUE

\* lines 119-146: the next filename of the walk
process_directory ==
    /\ call.step = "walk" /\ call.queue # <<>>
    /\ LET info == extract_folder_date(Chars(CheckDir))
           name == Head(call.queue)
           rest == [call EXCEPT !.queue = Tail(@)]
           exif_dt == exif[<<CheckDir, name>>]
           new_dt == CheckNewDate(exif_dt, info.y, info.m)
       IN  IF info = NoInfo \/ info.y = 0
           THEN \* "if not year: continue": the directory is not scanned
                /\ call' = [call EXCEPT !.queue = <<>>]
                /\ UNCHANGED <<exif, mtime, failedFile, faults>>
           ELSE IF \/ Suffix(name) \notin supported_read
                   \/ exif_dt = NoDate
                   \/ exif_dt.y = info.y /\ exif_dt.m = info.m
           THEN /\ call' = rest
                /\ UNCHANGED <<exif, mtime, failedFile, faults>>
           ELSE IF new_dt = ValueError
           THEN \* the replace of line 141 raises: a traceback
                /\ call' = [call EXCEPT !.step = "crashed"]
                /\ UNCHANGED <<exif, mtime, failedFile, faults>>
           ELSE IF ~call.save
           THEN /\ call' = [rest EXCEPT !.anomalies = Append(@, name)]
                /\ UNCHANGED <<exif, mtime, failedFile, faults>>
           ELSE /\ call' = [rest EXCEPT !.anomalies = Append(@, name)]
                /\ failedFile' = AppendedFailure(failedFile, CheckDir, AbsPath(CheckDir),
                                                 name)
                /\ \/ /\ Suffix(name) \in exif_writable       \* piexif or exiftool
                      /\ exif' = [exif EXCEPT ![<<CheckDir, name>>] = new_dt]
                      /\ mtime' = [mtime EXCEPT ![<<CheckDir, name>>] = NowDate]
                      /\ UNCHANGED faults
                   \/ /\ Suffix(name) \in exif_writable       \* the writer fails: printed
                      /\ faults < MaxFaults
                      /\ faults' = faults + 1
                      /\ UNCHANGED <<exif, mtime>>
                   \/ /\ Suffix(name) \notin exif_writable    \* "[SKIP] Format not supported"
                      /\ UNCHANGED <<exif, mtime, faults>>
    /\ UNCHANGED <<root_dirs, albums, nextId, deletes, stateFile, memVars, args, pc,
                   stack, loc, runs, ghostVars, prev>>

\* lines 148-152: the walk is over
process_directory_end ==
    /\ call.step = "walk" /\ call.queue = <<>>
    /\ call' = [call EXCEPT !.step = "done"]
    /\ UNCHANGED progVars

ExifCheckNext == process_directory \/ process_directory_end

ExifCheck == ExifCheckInit /\ [][ExifCheckNext]_vars

(***************************************************************************)
(* The properties.                                                         *)
(***************************************************************************)
\* the durable uploaded_files of a folder
UploadedFiles(fn) == SeqToSet(FilesOf(stateFile, fn))

\* C1: across normal passes, retry passes and listener iterations, a filename
\* that is in its folder's uploaded_files never gets a second successful
\* transfer call (the state is the one right after a transfer call succeeded).
C1_UploadedNeverTransferredAgain ==
    (pc \in {"pf_uploaded", "lis_uploaded"} /\ loc.file \in UploadedFiles(loc.folder_name))
        => Key(loc) \notin retransferred

\* C2: a normal pass that follows a normal pass which reported with no call
\* failing, nothing having changed between the two nor during the second,
\* performs no transfer call.
C2_SecondRunTransfersNothing ==
    (prev /\ pc # "idle" /\ ~RETRY_FAILED /\ ~DRY_RUN /\ ~changed)
        => "upload" \notin effects

\* C3: a filename is in a folder's uploaded_files only if its content was
\* transferred and its commit call succeeded.
C3_UploadedImpliesCommitted ==
    \A fn \in DOMAIN stateFile :
        \A f \in UploadedFiles(fn) :
            <<fn, f>> \in transferred /\ <<fn, f>> \in committed

\* C4: no step removes a filename from a folder's uploaded_files.
C4_UploadedFilesOnlyGrows ==
    [][\A fn \in DOMAIN stateFile :
          UploadedFiles(fn) \subseteq SeqToSet(FilesOf(stateFile', fn))]_vars

\* C5: within one run no folder has more than one album created for it.
C5_AlbumSingleton ==
    \A fn \in SeqToSet(created) :
        Cardinality({i \in 1..Len(created) : created[i] = fn}) <= 1

\* C6: once a 404 has made the run replace an album id, no later commit call
\* of the run is sent to the replaced id.
C6_OldAlbumNeverUsedAgain == stale_used = {}

\* C7: a commit call answered 429 is followed by one more commit call, and
\* the file is not recorded under AddToAlbumError on a 429 answer.
C7_RateLimitNeverClassified ==
    /\ (pc = "ata_raise" /\ loc.response = 429) => loc.ata_attempt < MaxAttempts
    /\ pc = "pf_commit_exc" => loc.response # 429

\* C8: when the retry pass has transferred and committed a file it took from
\* UploadError, the file is under no failure kind and is in its folder's
\* uploaded_files.
C8_FailureRoundTrip ==
    [][(pc = "retry_pf_ret" /\ loc.retval = "True" /\ loc.error_type = "UploadError")
          => /\ loc.file \in SeqToSet(FilesOf(stateFile', loc.folder_name))
             /\ \A kind \in DOMAIN failures' : \A fn \in DOMAIN failures'[kind] :
                   loc.file \notin SeqToSet(failures'[kind][fn].files)]_vars

\* C9 as stated: in a dry run there is no remote upload call, no remote commit
\* call, no exiftool invocation of any kind and no filesystem timestamp write.
C9_DryRunPurity ==
    DRY_RUN => effects \cap {"upload", "commit", "exiftool_read", "exiftool_write",
                             "utime"} = {}

\* C9 as amended: in a dry run, whatever mismatch is computed, there is no remote upload
\* call, no remote commit call, no exiftool invocation that writes to a file
\* and no filesystem timestamp write.
C9_DryRunWritesNothing ==
    DRY_RUN => effects \cap {"upload", "commit", "exiftool_write", "utime"} = {}

\* C9, its case: process_file has returned in a dry run with --update, for a
\* file it did not skip and whose stored date and modification time the
\* folder's name contradicts.
C9_DryRunMismatchRead ==
    /\ DRY_RUN /\ UPDATE_FROM_FOLDER_DATE
    /\ pc \in {"main_file", "retry_pf_ret"} /\ loc.retval = "None"
    /\ StartsWithFolder(loc.file, loc.folder_path)
    /\ loc.file \notin SeqToSet(FilesOf(state, loc.folder_name))
    /\ "exiftool_read" \in effects
    /\ Suffix(loc.file) \in SUPPORTED_EXIF_EXT
    /\ LET folder_info == extract_date_from_folder(Chars(loc.folder_name))
           stored == exif[FsKey(loc)]
       IN  /\ folder_info # NoInfo
           /\ stored # NoDate
           /\ build_datetime_from_folder_info(stored, folder_info) # stored
           /\ FilesystemNewDate(mtime[FsKey(loc)], folder_info)
                 \notin {mtime[FsKey(loc)], ValueError}

\* C10: a dry run creates no remote album, in the normal pass or in the retry
\* pass.
C10_DryRunCreatesNoAlbum == DRY_RUN => "create" \notin effects


\* the DateSpec of the folder name a reconciler was called on
CallInfo == extract_date_from_folder(Chars(call.fn))

\* C11: for every valid original timestamp and every folder name that gives
\* a year, a folder name with no day leaves the day and the time of day of
\* the corrected timestamp as they were, and one with no month leaves the
\* month as it was.
C11_WildcardsUntouched ==
    (call.step = "done" /\ CallInfo # NoInfo)
        => /\ CallInfo.d = None
                => /\ call.exif_new # ValueError
                   /\ call.exif_new.d = call.original.d
                   /\ call.exif_new.t = call.original.t
           /\ CallInfo.m = None
                => /\ call.exif_new # ValueError
                   /\ call.exif_new.m = call.original.m

\* C12: when the day of the folder name does not exist in its month and
\* year, both reconcilers return day 1 of that month and year, whatever the
\* original timestamp, and neither raises.
C12_InvalidDayFallsBack ==
    (/\ call.step = "done" /\ CallInfo # NoInfo
     /\ CallInfo.m \in 1..12 /\ CallInfo.d # None
     /\ ~ValidDate(CallInfo.y, CallInfo.m, CallInfo.d))
        => LET first == [y |-> CallInfo.y, m |-> CallInfo.m, d |-> 1,
                         t |-> call.original.t]
           IN  call.exif_new = first /\ call.fs_new = first


\* C13: no error ends the process: no exception goes uncaught, whatever the
\* folder name, the file and the answers of the remote.
C13_NoFatalError == pc # "crashed"

\* the failure kinds under which a file of a folder is listed
KindsOf(fl, fn, f) == {k \in DOMAIN fl : f \in SeqToSet(FailedFiles(fl, k, fn))}

\* C14: when a first pass that fixes dates reaches its report with no call
\* having failed and no album deleted, every file of the folder whose
\* extension is outside the supported set is listed under UnsupportedFormat
\* and is in the folder's uploaded_files.
C14_UnsupportedFormatAdvisory ==
    (/\ pc = "report" /\ runs = 1 /\ ~RETRY_FAILED /\ ~DRY_RUN
     /\ UPDATE_FROM_FOLDER_DATE /\ faults = 0 /\ deletes = 0)
        => \A fn \in root_dirs : \A f \in SeqToSet(DirFiles(fn)) :
              Suffix(f) \notin SUPPORTED_EXIF_EXT
                 => /\ "UnsupportedFormat" \in KindsOf(failedFile, fn, f)
                    /\ f \in UploadedFiles(fn)

\* C15: the size check of an oversize file fails once: upload_file is never
\* attempted a second time for it.
C15_TooLargeNotRetried ==
    (pc = "upload_file" /\ IsFile(loc.folder_path, loc.file) /\ Oversize(loc.file))
        => loc.uf_attempt = 1

\* C16: when process_file returns, the file it processed is listed under at
\* most one failure kind.
C16_AtMostOneFailureKind ==
    (pc \in {"main_file", "retry_pf_ret"} /\ loc.retval \in {"True", "False"})
        => Cardinality(KindsOf(failures, loc.folder_name, loc.file)) <= 1


\* C17: whenever the process is killed, every file in a folder's durable
\* uploaded_files is committed to an album or listed in failed_uploads.json.
C17_KillLosesNoFile ==
    [][(pc \notin {"idle", "report", "crashed"} /\ pc' = "idle")
          => \A fn \in DOMAIN stateFile : \A f \in UploadedFiles(fn) :
                <<fn, f>> \in committed \/ KindsOf(failedFile, fn, f) # {}]_vars

\* C18: no album-create call is made for a folder that has no record in
\* state while the remote library holds an album with the folder's name as
\* its title.
C18_ReuseBeforeCreate ==
    (pc = "create_album" /\ loc.folder_name \notin DOMAIN state)
        => ~ \E a \in DOMAIN albums : albums[a] = AlbumTitle(loc.folder_name)


\* C19: without --save exif-check.py leaves every DateTimeOriginal and
\* failed_uploads.json as they were; with --save, once the walk is over,
\* every file found with a year or month other than the folder's has the
\* folder's year and month and is listed under ExifErrors.
C19_CheckOnlyOrFixAndAppend ==
    /\ ~call.save => exif = call.exif0 /\ failedFile = EmptyDict
    /\ (call.save /\ call.step = "done")
          => \A f \in SeqToSet(call.anomalies) :
                /\ exif[<<CheckDir, f>>].y = extract_folder_date(Chars(CheckDir)).y
                /\ exif[<<CheckDir, f>>].m = extract_folder_date(Chars(CheckDir)).m
                /\ f \in SeqToSet(FailedFiles(failedFile, "ExifErrors", CheckDir))

\* C20: upload_file is attempted at most 5 times; when it has given up for a
\* file within the size limit, the file is listed under UploadError, no
\* commit call follows and the file is not in the folder's files.
C20_TransferRetryBound ==
    [][/\ pc = "upload_file" => loc.uf_attempt \in 1..MaxAttempts
       /\ (/\ pc = "pf_upload_exc" /\ pc' # "idle"
           /\ loc.folder_name \in DOMAIN state /\ ~Oversize(loc.file))
             => /\ loc.file \in SeqToSet(FailedFiles(failures', "UploadError",
                                                     loc.folder_name))
                /\ pc' \notin {"add_to_album", "crashed"}
                /\ loc.file \notin SeqToSet(FilesOf(stateFile', loc.folder_name))]_vars


\* C21: from the call of add_to_album for a file to its end at most 5
\* batchCreate calls are sent, 404 answers included, and when process_file's
\* commit has failed the file is listed under AddToAlbumError and the process
\* goes on.
C21_CommitRetryBound ==
    [][/\ loc'.commits <= MaxAttempts
       /\ (pc = "pf_commit_exc" /\ pc' # "idle")
             => /\ loc.file \in SeqToSet(FailedFiles(failures', "AddToAlbumError",
                                                     loc.folder_name))
                /\ pc' # "crashed"]_vars

\* C22: when a normal pass reaches its report, no file of a folder's
\* uploaded_files whose commit call succeeded is listed under UploadError or
\* AddToAlbumError in failed_uploads.json.
C22_NormalPassUnparks ==
    (pc = "report" /\ ~RETRY_FAILED /\ ~DRY_RUN)
        => \A fn \in DOMAIN stateFile : \A f \in UploadedFiles(fn) :
              <<fn, f>> \in committed
                 => KindsOf(failedFile, fn, f) \cap {"UploadError", "AddToAlbumError"} = {}

\* C23: every removal of a filename from the registry is written through:
\* when the retry pass has removed a file and goes on to the next, and when
\* the listener has removed one, failed_uploads.json equals the registry the
\* removal was made in.
C23_RemovalWriteThrough ==
    [][/\ (/\ pc \in {"retry_file", "retry_pf_ret"} /\ pc' = "retry_file"
           /\ failures' # failures)
             => failedFile' = failures'
       /\ (pc = "lis_committed" /\ pc' = "lis_file" /\ lfailures' # lfailures)
             => failedFile' = lfailures']_vars

\* C24: when process_file returns in a retry pass that is not a dry run, for
\* a file taken from AddToAlbumError and with no remote call of it having
\* failed, the file's commit call has succeeded and the pass removes the file
\* from AddToAlbumError.
C24_AddToAlbumErrorRecovered ==
    [][(/\ pc = "retry_pf_ret" /\ pc' # "idle"
        /\ loc.error_type = "AddToAlbumError" /\ ~DRY_RUN /\ loc.retval # "False")
          => /\ Key(loc) \in committed
             /\ loc.file \notin SeqToSet(FailedFiles(failures', "AddToAlbumError",
                                                     loc.folder_name))]_vars

\* C25: at the end of a listener iteration, every existing file that the
\* registry read by the iteration lists under UploadError, AddToAlbumError or
\* ExifErrors, in an existing folder that has an album record, has had
\* upload_file called for it by the iteration or was uploaded by the listener
\* before.
C25_ListenerDrivesEveryKind ==
    (pc = "lis_folder" /\ loc.folder_queue = <<>> /\ ~DRY_RUN)
        => \A kind \in {"UploadError", "AddToAlbumError", "ExifErrors"} \cap DOMAIN lfailures :
              \A fn \in DOMAIN lfailures[kind] :
                 (IsDir(lfailures[kind][fn].path) /\ fn \in DOMAIN state)
                    => \A f \in SeqToSet(lfailures[kind][fn].files) :
                          IsFile(lfailures[kind][fn].path, f)
                             => <<fn, f>> \in loc.driven \cup already_uploaded

\* C26: while the listener runs, no step takes out of the ExifErrors of
\* failed_uploads.json a file that the listener has not uploaded, whatever
\* the point of the iteration at which exif-check.py --save appended it.
C26_AppendedNeverLost ==
    [][InListener
          => \A fn \in DOMAIN (IF "ExifErrors" \in DOMAIN failedFile
                               THEN failedFile["ExifErrors"] ELSE EmptyDict) :
                \A f \in SeqToSet(FailedFiles(failedFile, "ExifErrors", fn)) :
                   \/ f \in SeqToSet(FailedFiles(failedFile', "ExifErrors", fn))
                   \/ <<fn, f>> \in already_uploaded']_vars

\* C27: when the folder name gives a year, a month and a day that form a
\* valid date, build_datetime_from_folder_info returns that date with the
\* original's time of day, whatever the valid original timestamp.
C27_FullDateApplied ==
    (/\ call.step = "done" /\ CallInfo # NoInfo
     /\ CallInfo.m # None /\ CallInfo.d # None
     /\ ValidDate(CallInfo.y, CallInfo.m, CallInfo.d))
        => call.exif_new = [y |-> CallInfo.y, m |-> CallInfo.m, d |-> CallInfo.d,
                            t |-> call.original.t]

\* C28: in upload_state.json the record stored under a folder name has the
\* absolute path of that folder as its path.
C28_RecordPathIsFolder ==
    \A fn \in DOMAIN stateFile : stateFile[fn].path = AbsPath(fn)

\* C29: no step of the uploader puts back under the ExifErrors of
\* failed_uploads.json a file that its listener has uploaded and removed
\* from there.
C29_RemovalNeverUndone ==
    [][(<<pc, stack, loc>>' # <<pc, stack, loc>>)
          => \A k \in already_uploaded :
                k[2] \in SeqToSet(FailedFiles(failedFile', "ExifErrors", k[1]))
                   => k[2] \in SeqToSet(FailedFiles(failedFile, "ExifErrors", k[1]))]_vars

=============================================================================
